---- MODULE Spec2Model ----
(***************************************************************************)
(* A model of the PDF RAG chatbot: the FastAPI handlers of app.py, the     *)
(* RAGChatbot of rag_chatbot_ollama.py that app.py imports, and the        *)
(* RAGChatbot of rag_chatbot.py (the OpenAI variant with its retry loops). *)
(* Texts are sequences of one-character strings, so that strip(), lower()  *)
(* and the substring test are computed as Python computes them.            *)
(***************************************************************************)
EXTENDS Integers, Sequences, FiniteSets, TLC

\* ------------------------------------------------------------------ bounds
\* request slots that can be in flight at the same time
MaxReq == 2
\* calls started in one behaviour
MaxCalls == 2
\* whitespace characters the backend may put before and after a generated text
MaxPad == 1
\* chunks the ingested corpus may hold
MaxChunks == 2
\* database sessions that can be open at the same time
MaxTx == 2
\* History Store calls started in one behaviour
MaxDbCalls == 2

\* ------------------------------------------------------- program constants
\* rag_chatbot_ollama.py:295  len(response_text.strip()) < 10
MinAnswerLen == 10
\* rag_chatbot_ollama.py:274, 282  similarity_top_k=12
ChatTopK == 12
\* rag_chatbot.py:225  max_attempts = 3 (query)
QueryMaxAttempts == 3
\* rag_chatbot.py:263  max_attempts = 3 (chat)
ChatMaxAttempts == 3
\* rag_chatbot.py:153  max_attempts = 5 (_create_index)
IndexMaxAttempts == 5
\* rag_chatbot.py:234, 272  wait_time = (attempt + 1) * 10
QueryBaseDelay == 10
\* rag_chatbot.py:167  wait_time = (attempt + 1) * 30
IndexBaseDelay == 30

Reqs == 1..MaxReq
Sessions == {"s1", "s2"}
Questions == {"q1", "q2"}

\* -------------------------------------------------------------------- text
Whitespace == {" ", "\n", "\t"}

RECURSIVE LStrip(_)
LStrip(t) ==
    IF t # <<>> /\ Head(t) \in Whitespace THEN LStrip(Tail(t)) ELSE t

RECURSIVE RStrip(_)
RStrip(t) ==
    IF t # <<>> /\ t[Len(t)] \in Whitespace
    THEN RStrip(SubSeq(t, 1, Len(t) - 1))
    ELSE t

\* str.strip(): leading and trailing whitespace removed
Strip(t) == RStrip(LStrip(t))

LowerChar(c) ==
    CASE c = "C" -> "c"
      [] c = "L" -> "l"
      [] c = "M" -> "m"
      [] c = "R" -> "r"
      [] c = "T" -> "t"
      [] OTHER -> c

\* str.lower()
Lower(t) == [i \in 1..Len(t) |-> LowerChar(t[i])]

\* Python's `sub in t` on strings
Contains(t, sub) ==
    \E i \in 0..(Len(t) - Len(sub)) : SubSeq(t, i + 1, i + Len(sub)) = sub

\* The fixed refusal sentence of rag_chatbot_ollama.py:287 and :296, 46
\* characters: every Hangul syllable is written "k", blanks and full stops
\* stand where the sentence has them.
Refusal ==
    <<"k","k","k","k","k","."," ","k","k"," ","k","k","k"," ","k","k"," ",
      "k"," ","k","k","k","k","."," ","k","k"," ","k","k","k"," ","k","k",
      "k","k"," ","k","k","k","k","k","k","k","k",".">>

Pad(n) == [i \in 1..n |-> " "]

\* a body of k characters with no whitespace at either end; from three
\* characters on it has a blank inside
Body(k) == [i \in 1..k |-> IF i = 2 /\ k >= 3 THEN " " ELSE "a"]

\* body lengths on both sides of the threshold of the post-check
BodyLens == {MinAnswerLen - 1, MinAnswerLen}

\* the texts the generation service may return, str(response): the empty
\* text, bodies with no, left, right or both paddings, the refusal sentence
Texts ==
    { Pad(l) \o Body(k) \o Pad(r) : l \in {0, MaxPad}, k \in BodyLens, r \in {0, MaxPad} }
    \cup {<<>>, Pad(MaxPad), Refusal}

\* ------------------------------------------------------- backend failures
\* the failures the embedding / generation backend may raise
BackendErrors == {"e429", "eRate", "eToo", "eConn", "eBad"}

\* str(e) of each backend failure
ErrStr(e) ==
    CASE e = "e429" -> <<"4","2","9">>
      [] e = "eRate" -> <<"R","a","t","e"," ","L","i","m","i","t">>
      [] e = "eToo" ->
           <<"T","o","o"," ","M","a","n","y"," ","R","e","q","u","e","s","t","s">>
      [] e = "eConn" ->
           <<"C","o","n","n","e","c","t","i","o","n"," ","r","e","f","u","s","e","d">>
      [] OTHER -> <<"i","n","v","a","l","i","d">>

S429 == <<"4","2","9">>
SRateLimit == <<"r","a","t","e"," ","l","i","m","i","t">>
STooMany ==
    <<"t","o","o"," ","m","a","n","y"," ","r","e","q","u","e","s","t","s">>
SConnection == <<"c","o","n","n","e","c","t","i","o","n">>
SRefused == <<"r","e","f","u","s","e","d">>

\* rag_chatbot.py: the test that decides whether a failure is retried
IsRateLimit(e) ==
    \/ Contains(ErrStr(e), S429)
    \/ Contains(Lower(ErrStr(e)), SRateLimit)
    \/ Contains(Lower(ErrStr(e)), STooMany)

\* rag_chatbot_ollama.py: the test that adds the "is Ollama running" hint
ConnectionHint(e) ==
    \/ Contains(Lower(ErrStr(e)), SConnection)
    \/ Contains(Lower(ErrStr(e)), SRefused)

\* --------------------------------------------------------- Python binding
\* parameters of RAGChatbot.chat (self left out)
ChatParams == <<"question", "chat_history">>
\* parameters of RAGChatbot.query
QueryParams == <<"question", "similarity_top_k">>
\* attributes a RAGChatbot instance of rag_chatbot_ollama.py answers to
ChatbotMethods ==
    {"__init__", "_initialize_index", "_create_index", "ingest_pdfs", "query", "chat"}
\* names bound at module level in rag_chatbot.py
OpenAIModuleNames ==
    {"os", "Path", "load_dotenv", "VectorStoreIndex", "SimpleDirectoryReader",
     "Settings", "StorageContext", "ChromaVectorStore", "OpenAIEmbedding",
     "OpenAI", "chromadb", "RAGChatbot", "main"}

\* a call with npos positional arguments and the keyword arguments kw binds
\* to the parameter list params; otherwise Python raises TypeError
Binds(params, npos, kw) ==
    /\ npos <= Len(params)
    /\ \A k \in kw : \E i \in (npos + 1)..Len(params) : params[i] = k

\* ------------------------------------------------------------------- state
VARIABLES
    program,      \* which program runs: "app" (app.py with rag_chatbot_ollama.py)
                  \* or "openai" (rag_chatbot.py, a program of its own)
    chatbot,      \* app.py:66 the global chatbot: "None" or "RAGChatbot"
    index,        \* RAGChatbot.index of that instance: "None" or "VectorStoreIndex"
    collection,   \* the chunks of collection "pdf_documents", in ingestion order
    engines,      \* engines[h]: the memory of the h-th chat engine created
    turns,        \* turns[s]: the turns generation answered for callers acting for s
    req,          \* the request slots: the calls in flight
    resp,         \* the call that ended last, with its outcome
    ncalls,       \* calls started so far
    oaIndex,      \* rag_chatbot.py: RAGChatbot.index of the OpenAI variant
    oaCollection, \* rag_chatbot.py: nodes written to its collection
    built,        \* the corpus directory the collection was last rebuilt from
                  \* and the chunks it held when that rebuild ended
    users,        \* database.py:18 table users: the committed rows
    userSeq,      \* the next value of the sequence of users.id
    chats,        \* database.py:48 table chats: the committed rows
    chatSeq,      \* chat ids handed out so far (app.py:665 uuid4, never twice)
    messages,     \* database.py:76 table messages: the committed rows, by id
    msgSeq,       \* the next value of the sequence of messages.id
    tx,           \* the open database sessions, one per call under way
    dbresp,       \* the History Store call that ended last, with its outcome
    dbcalls,      \* History Store calls started so far
    firstId,      \* firstId[e]: the id the first committed row of email e got
    kept          \* kept[c]: the titles with message lists commits gave chat c

vars ==
    <<program, chatbot, index, collection, engines, turns, req, resp,
      ncalls, oaIndex, oaCollection, built,
      users, userSeq, chats, chatSeq, messages, msgSeq, tx, dbresp, dbcalls,
      firstId, kept>>

\* the chatbot side and the History Store side of the state
botvars ==
    <<program, chatbot, index, collection, engines, turns, req, resp,
      ncalls, oaIndex, oaCollection, built>>
dbvars ==
    <<users, userSeq, chats, chatSeq, messages, msgSeq, tx, dbresp, dbcalls,
      firstId, kept>>

NoErr == [type |-> "none", cause |-> "none", hint |-> FALSE]
Err(t, c, h) == [type |-> t, cause |-> c, hint |-> h]

NoOut == [status |-> "none", answer |-> <<>>, err |-> NoErr]
\* the method returned ans to its Python caller
Returned(ans) == [status |-> "return", answer |-> ans, err |-> NoErr]
\* the method raised e to its Python caller
Raised(e) == [status |-> "raise", answer |-> <<>>, err |-> e]
\* the HTTP response of a handler
Http(status, ans, e) == [status |-> status, answer |-> ans, err |-> e]

\* ---------------------------------------------------- corpus directories
\* A corpus directory as _create_index finds it: missing (rag_chatbot_ollama.py
\* :119), without a PDF file (:133), with PDF files load_data cannot read
\* (:154), or with PDF files, which from_documents splits into n chunks.
NoDir == [kind |-> "none", n |-> 0]
Dirs ==
    {[kind |-> k, n |-> 0] : k \in {"missing", "empty", "unreadable"}}
    \cup {[kind |-> "pdfs", n |-> MaxChunks]}
\* the directories with nothing to ingest
EmptyDirs == {d \in Dirs : d.kind \in {"missing", "empty"}}
\* the chunks one ingestion of n chunks writes, in ingestion order
Fresh(n) == [i \in 1..n |-> i]

\* no rebuild has ended, or one is under way
NoBuild == [dir |-> NoDir, n |-> 0]
Built(d, n) == [dir |-> d, n |-> n]

IdleReq ==
    [op |-> "none", via |-> "none", sid |-> "none", q |-> "none", pc |-> "idle",
     h |-> 0, seen |-> <<>>, nodes |-> <<>>, retrieved |-> FALSE, gen |-> 0,
     prior |-> 0, last |-> "none", text |-> <<>>, attempt |-> 0, tries |-> 0,
     waits |-> <<>>, out |-> NoOut,
     dir |-> NoDir, call |-> 0, before |-> NoBuild, count |-> 0,
     dropped |-> "none", bot |-> "None"]

\* the turn a chat engine keeps in its memory; sid (the session the caller
\* acted for) is kept beside the question to tell whose turn it is
Turn(s, q) == [sid |-> s, q |-> q]

\* ------------------------------------------------------------- retrieval
\* similarity of chunk c to question q (the embedding service is opaque:
\* q1 ranks the chunks, q2 scores them all alike)
Sim(q, c) == IF q = "q1" THEN c ELSE 1

\* position in coll of the best remaining chunk: highest similarity, the
\* earliest ingested among equals
Best(coll, q, left) ==
    CHOOSE i \in left :
        \A j \in left :
            \/ Sim(q, coll[i]) > Sim(q, coll[j])
            \/ Sim(q, coll[i]) = Sim(q, coll[j]) /\ i <= j

RECURSIVE TopK(_, _, _, _)
TopK(coll, q, left, k) ==
    IF k <= 0 \/ left = {} THEN <<>>
    ELSE LET b == Best(coll, q, left)
         IN  <<coll[b]>> \o TopK(coll, q, left \ {b}, k - 1)

\* index.as_retriever(similarity_top_k=k).retrieve(q): the k most similar
\* chunks of the collection, fewer when it holds fewer, none when it is empty
Retrieve(coll, q, k) == TopK(coll, q, DOMAIN coll, k)

\* ---------------------------------------------------------- chat engines
\* a single engine kept and handed out again
AsChatEngineShared(es) ==
    IF es = <<>> THEN [h |-> 1, engines |-> <<(<<>>)>>]
    ELSE [h |-> 1, engines |-> es]
\* rag_chatbot_ollama.py:272 index.as_chat_engine(...): every call builds a
\* new engine, whose memory starts empty
AsChatEngine(es) == [h |-> Len(es) + 1, engines |-> Append(es, <<>>)]

\* rag_chatbot_ollama.py:295 the post-check of the generated text
PostCheckNoStrip(t) == IF Len(t) < MinAnswerLen THEN Refusal ELSE t
PostCheck(t) == IF Len(Strip(t)) < MinAnswerLen THEN Refusal ELSE t

\* rag_chatbot_ollama.py:286 `if not nodes or len(nodes) == 0`
NoNodesNever(nodes) == FALSE
NoNodes(nodes) == nodes = <<>> \/ Len(nodes) = 0

\* rag_chatbot_ollama.py:299-303 and :242-246: any exception e of the try
\* block leaves as a new Exception whose cause is e
WrapOllama(e) == Err("Exception", e, ConnectionHint(e))

\* what the caller of the method gets: the Python caller the outcome as it
\* is, the HTTP client the handler's response (app.py:392-407, :350-364)
Deliver(via, errname, o) ==
    IF via = "direct" THEN o
    ELSE IF o.status = "return" THEN Http("200", o.answer, NoErr)
    ELSE Http("500", <<>>, Err(errname, o.err.type, o.err.hint))

NotInitialized == Http("503", <<>>, Err("ChatbotNotInitialized", "none", FALSE))

\* slot r can take a call of program p; the slots are alike, so a call takes
\* the lowest free one. While initialize_chatbot runs (app.py:299-325, a
\* coroutine with no await) the event loop starts no other handler; while
\* the constructor of rag_chatbot.py runs, main (:281-314) calls nothing else.
Idle(r, p) ==
    /\ program = p
    /\ \A o \in Reqs : req[o].op \notin {"init", "oa_init"}
    /\ req[r].pc = "idle"
    /\ ncalls < MaxCalls
    /\ \A o \in Reqs : o < r => req[o].pc # "idle"

\* app.py:328-432: query_chatbot, chat_with_bot and reset_chat_session are
\* coroutines that call the chatbot's synchronous methods with no await, so
\* the event loop of the server runs one of them from its first line to its
\* return and starts no other handler meanwhile
EventLoopFree == \A o \in Reqs : req[o].via # "http"

\* ----------------------------------------------------------- History Store
\* the data the callers send
Emails == {"a@x", "b@x"}
Names == {"n1", "n2"}
Titles == {"t1", "t2"}
\* app.py:174-177 Message: role and content, both any string
Msg(role, content) == [role |-> role, content |-> content]
\* the lists create_chat is given: two messages, or a message whose role is
\* another string (app.py:175 role: str)
CreateLists ==
    {<<Msg("user", "q"), Msg("bot", "a")>>, <<Msg("system", "s")>>}
\* an Optional[List] argument: None, or a list
NoMsgs == [some |-> FALSE, val |-> <<>>]
Some(l) == [some |-> TRUE, val |-> l]
\* the user ids callers act for
UserIds == 1..2

\* rows of the three tables (database.py:18-94)
UserRow(id, email, name) == [id |-> id, email |-> email, name |-> name]
\* created_at and updated_at are func.now() of the statement that writes
\* them: the time at which its transaction began
ChatRow(id, title, user, at) ==
    [id |-> id, title |-> title, user_id |-> user, updated_at |-> at]
MsgRow(id, chat, m, at) ==
    [id |-> id, chat_id |-> chat, role |-> m.role, content |-> m.content,
     created_at |-> at]

\* the ids of the committed message rows of chat c
MsgIds(msgs, c) == {msgs[i].id : i \in {i \in 1..Len(msgs) : msgs[i].chat_id = c}}

RECURSIVE Keep(_, _)
\* the rows of msgs whose id is not in gone, in their order
Keep(msgs, gone) ==
    IF msgs = <<>> THEN <<>>
    ELSE IF Head(msgs).id \in gone THEN Keep(Tail(msgs), gone)
    ELSE <<Head(msgs)>> \o Keep(Tail(msgs), gone)

RECURSIVE MsgsOf(_, _)
\* database.py:60, :72, :89-94 Chat.messages through Message.to_dict: role
\* and content of the rows of chat c, in the order of their ids
MsgsOf(msgs, c) ==
    IF msgs = <<>> THEN <<>>
    ELSE IF Head(msgs).chat_id = c
         THEN <<Msg(Head(msgs).role, Head(msgs).content)>> \o MsgsOf(Tail(msgs), c)
         ELSE MsgsOf(Tail(msgs), c)

\* the rows session.add(Message(...)) and the flush of commit write for the
\* list l of chat c, the sequence of messages.id being at seq, in the
\* transaction begun at time at
NewRowsHead(l, c, seq, at) ==
    [i \in 1..(IF l = <<>> THEN 0 ELSE 1) |-> MsgRow(seq + i - 1, c, l[i], at)]
NewRows(l, c, seq, at) == [i \in 1..Len(l) |-> MsgRow(seq + i - 1, c, l[i], at)]

\* the committed message rows of chat c
RowsOf(msgs, c) == {msgs[i] : i \in {i \in 1..Len(msgs) : msgs[i].chat_id = c}}

\* database.py:60  order_by="Message.created_at": the orders in which the
\* SELECT of the relationship may give the rows: by created_at, the rows of
\* one created_at in an order the statement does not fix
OrderByCreatedAt(rows) ==
    {f \in [1..Cardinality(rows) -> rows] :
        \A i, j \in 1..Cardinality(rows) :
            i < j => f[i] # f[j] /\ f[i].created_at <= f[j].created_at}

\* database.py:72, :89-94  [msg.to_dict() for msg in self.messages]: the
\* lists a read of the messages of chat c may give
ChatMessages(msgs, c) ==
    {[i \in 1..Len(f) |-> Msg(f[i].role, f[i].content)] :
        f \in OrderByCreatedAt(RowsOf(msgs, c))}

\* database.py:278  order_by(Chat.updated_at.desc()): the orders in which
\* the SELECT may give chat rows
OrderByUpdatedAtDesc(rows) ==
    {f \in [1..Cardinality(rows) -> rows] :
        \A i, j \in 1..Cardinality(rows) :
            i < j => f[i] # f[j] /\ f[i].updated_at >= f[j].updated_at}

\* database.py:64-73  Chat.to_dict(include_messages=False)
ChatDict(row) ==
    [id |-> row.id, title |-> row.title, user_id |-> row.user_id,
     updated_at |-> row.updated_at]

\* what a History Store call gives back: the method's return value (a row as
\* dict, None, a bool) or its exception, and the status the handler of
\* app.py makes of it
NoRes == [kind |-> "none", id |-> 0, title |-> "none", msgs |-> <<>>, status |-> "none"]
DictRes(id, title, l) ==
    [kind |-> "dict", id |-> id, title |-> title, msgs |-> l, status |-> "200"]
NoneRes == [kind |-> "None", id |-> 0, title |-> "none", msgs |-> <<>>, status |-> "404"]
RaiseRes == [kind |-> "raise", id |-> 0, title |-> "none", msgs |-> <<>>, status |-> "500"]

\* a version of a chat: its title with its message list
Version(title, l) == [title |-> title, msgs |-> l]
NoVersion == Version("none", <<>>)

IdleTx ==
    [op |-> "none", pc |-> "idle", via |-> "none", user |-> 0, email |-> "none", name |-> "none",
     chat |-> 0, title |-> "none", msgs |-> NoMsgs, seq |-> 0, was |-> "none",
     row |-> ChatRow(0, "none", 0, 0), del |-> {}, failed |-> "none",
     at |-> 0, ats |-> {}, list |-> <<>>, owned |-> {}, top |-> {},
     v0 |-> NoVersion, v1 |-> NoVersion, before |-> NoVersion, after |-> NoVersion,
     frame |-> TRUE, res |-> NoRes]

Txs == 1..MaxTx

\* the History Store before any call: no open session
DbEmpty ==
    /\ users = {}
    /\ userSeq = 1
    /\ chats = {}
    /\ chatSeq = 0
    /\ messages = <<>>
    /\ msgSeq = 1
    /\ tx = [t \in Txs |-> IdleTx]
    /\ dbresp = IdleTx
    /\ dbcalls = 0
    /\ firstId = [e \in Emails |-> 0]
    /\ kept = <<>>

\* ------------------------------------------------------------------- init
\* The state after startup_event (app.py:220-266): the chatbot is installed
\* over the ingested corpus, or startup failed and it is None; the OpenAI
\* variant is inside its constructor (rag_chatbot.py:62).
Init ==
    /\ program \in {"app", "openai"}
    /\ chatbot \in IF program = "app" THEN {"None", "RAGChatbot"} ELSE {"None"}
    /\ index = IF chatbot = "None" THEN "None" ELSE "VectorStoreIndex"
    /\ built \in
         IF chatbot = "None" THEN {NoBuild}
         ELSE {Built(d, d.n) : d \in {d \in Dirs : d.kind # "unreadable"}}
    /\ collection = Fresh(built.n)
    /\ engines = <<>>
    /\ turns = [s \in Sessions |-> <<>>]
    /\ req = [r \in Reqs |-> IdleReq]
    /\ resp = IdleReq
    /\ ncalls = 0
    /\ oaIndex = "None"
    /\ oaCollection = 0
    /\ DbEmpty

\* ------------------------------------------ the chat of rag_chatbot_ollama.py
\* the call of slot r ends with outcome o: the caller has it, the slot is free
Finish(r, me, o) ==
    /\ req' = [req EXCEPT ![r] = IdleReq]
    /\ resp' = [me EXCEPT !.pc = "done", !.out = o]

\* rag_chatbot_ollama.py:259-277: the index check and the chat engine
ChatEnter(r, me) ==
    IF index = "None"
    THEN /\ Finish(r, me, Deliver(me.via, "ChatError",
                                   Raised(Err("ValueError", "none", FALSE))))
         /\ UNCHANGED engines
    ELSE LET e == AsChatEngine(engines)
         IN  /\ engines' = e.engines
             /\ req' = [req EXCEPT ![r] = [me EXCEPT !.pc = "retrieve", !.h = e.h]]
             /\ UNCHANGED resp

\* app.py:367-407 chat_with_bot: chatbot.chat(question=..., session_id=...)
ChatWithBot(r) ==
    \E q \in Questions, s \in Sessions :
        /\ Idle(r, "app")
        /\ EventLoopFree
        /\ ncalls' = ncalls + 1
        /\ LET me == [IdleReq EXCEPT !.op = "chat", !.via = "http",
                                     !.sid = s, !.q = q]
           IN  IF chatbot = "None"
               THEN Finish(r, me, NotInitialized) /\ UNCHANGED engines
               ELSE IF ~Binds(ChatParams, 0, {"question", "session_id"})
               THEN /\ Finish(r, me, Deliver("http", "ChatError",
                                   Raised(Err("TypeError", "none", FALSE))))
                    /\ UNCHANGED engines
               ELSE ChatEnter(r, me)
        /\ UNCHANGED <<dbvars, program, built, chatbot, index, collection, turns, oaIndex, oaCollection>>

\* RAGChatbot.chat(q, s) called on the instance with positional arguments:
\* s binds to chat_history, which lines 248-303 never read
ChatDirect(r) ==
    \E q \in Questions, s \in Sessions :
        /\ Idle(r, "app")
        /\ chatbot # "None"
        /\ ncalls' = ncalls + 1
        /\ LET me == [IdleReq EXCEPT !.op = "chat", !.via = "direct",
                                     !.sid = s, !.q = q]
           IN  IF ~Binds(ChatParams, 2, {})
               THEN /\ Finish(r, me, Raised(Err("TypeError", "none", FALSE)))
                    /\ UNCHANGED engines
               ELSE ChatEnter(r, me)
        /\ UNCHANGED <<dbvars, program, built, chatbot, index, collection, turns, oaIndex, oaCollection>>

\* rag_chatbot_ollama.py:280-287: the relevance retrieval and the short cut
ChatRetrieve(r) ==
    LET me == req[r] IN
    /\ me.pc = "retrieve"
    /\ \/ \E e \in BackendErrors :
            Finish(r, [me EXCEPT !.last = e],
                   Deliver(me.via, "ChatError", Raised(WrapOllama(e))))
       \/ LET nodes == Retrieve(collection, me.q, ChatTopK)
              got == [me EXCEPT !.nodes = nodes, !.retrieved = TRUE,
                                !.dir = built.dir]
          IN  IF NoNodes(nodes)
              THEN Finish(r, got, Deliver(me.via, "ChatError", Returned(Refusal)))
              ELSE /\ req' = [req EXCEPT ![r] = [got EXCEPT !.pc = "generate"]]
                   /\ UNCHANGED resp
    /\ UNCHANGED <<dbvars, program, built, chatbot, index, collection, engines, turns, ncalls,
                   oaIndex, oaCollection>>

\* rag_chatbot_ollama.py:290-303: chat_engine.chat(question), which answers
\* from its memory and the question and then keeps the turn, and the
\* post-check of the answer
ChatGenerate(r) ==
    LET me == [req[r] EXCEPT !.gen = @ + 1, !.tries = @ + 1,
                             !.seen = engines[req[r].h],
                             !.prior = Len(turns[req[r].sid])]
    IN
    /\ req[r].pc = "generate"
    /\ \/ \E t \in Texts :
            /\ Finish(r, [me EXCEPT !.last = "ok", !.text = t],
                      Deliver(me.via, "ChatError", Returned(PostCheck(t))))
            /\ engines' = [engines EXCEPT ![me.h] = Append(@, Turn(me.sid, me.q))]
            /\ turns' = [turns EXCEPT ![me.sid] = Append(@, Turn(me.sid, me.q))]
       \/ \E e \in BackendErrors :
            /\ Finish(r, [me EXCEPT !.last = e],
                      Deliver(me.via, "ChatError", Raised(WrapOllama(e))))
            /\ UNCHANGED <<engines, turns>>
    /\ UNCHANGED <<dbvars, program, built, chatbot, index, collection, ncalls, oaIndex, oaCollection>>

\* app.py:410-432 reset_chat_session: chatbot.reset_session(session_id); the
\* handler has no try, an exception leaves as the server's 500
ResetChatSession(r) ==
    \E s \in Sessions :
        /\ Idle(r, "app")
        /\ EventLoopFree
        /\ ncalls' = ncalls + 1
        /\ LET me == [IdleReq EXCEPT !.op = "reset", !.via = "http", !.sid = s]
           IN  IF chatbot = "None"
               THEN Finish(r, me, NotInitialized)
               ELSE IF "reset_session" \notin ChatbotMethods
               THEN Finish(r, me, Http("500", <<>>,
                        Err("InternalServerError", "AttributeError", FALSE)))
               ELSE Finish(r, me, Http("200", <<>>, NoErr))
        /\ UNCHANGED <<dbvars, program, built, chatbot, index, collection, engines, turns,
                       oaIndex, oaCollection>>

\* app.py:328-364 query_chatbot and rag_chatbot_ollama.py:229-236
QueryChatbot(r) ==
    \E q \in Questions :
        /\ Idle(r, "app")
        /\ EventLoopFree
        /\ ncalls' = ncalls + 1
        /\ LET me == [IdleReq EXCEPT !.op = "query", !.via = "http", !.q = q]
           IN  IF chatbot = "None"
               THEN Finish(r, me, NotInitialized)
               ELSE IF ~Binds(QueryParams, 0, {"question", "similarity_top_k"})
               THEN Finish(r, me, Deliver("http", "QueryError",
                               Raised(Err("TypeError", "none", FALSE))))
               ELSE IF index = "None"
               THEN Finish(r, me, Deliver("http", "QueryError",
                               Raised(Err("ValueError", "none", FALSE))))
               ELSE /\ req' = [req EXCEPT ![r] = [me EXCEPT !.pc = "query"]]
                    /\ UNCHANGED resp
        /\ UNCHANGED <<dbvars, program, built, chatbot, index, collection, engines, turns,
                       oaIndex, oaCollection>>

\* rag_chatbot_ollama.py:238-246: one call of the query engine, no loop
QueryRun(r) ==
    LET me == [req[r] EXCEPT !.gen = @ + 1, !.tries = @ + 1] IN
    /\ req[r].pc = "query"
    /\ \/ \E t \in Texts :
            Finish(r, [me EXCEPT !.last = "ok", !.text = t],
                   Deliver(me.via, "QueryError", Returned(t)))
       \/ \E e \in BackendErrors :
            Finish(r, [me EXCEPT !.last = e],
                   Deliver(me.via, "QueryError", Raised(WrapOllama(e))))
    /\ UNCHANGED <<dbvars, program, built, chatbot, index, collection, engines, turns, ncalls,
                   oaIndex, oaCollection>>

\* ------------------------------- the constructor of rag_chatbot_ollama.py
\* rag_chatbot_ollama.py:99 chroma_client.delete_collection: the collection
\* created next under the same name starts with no chunk
DeleteCollectionKept(coll) == coll
DeleteCollection(coll) == <<>>

\* the failure the constructor meets: its except clauses (lines 46-53 and
\* 107-110) treat every exception alike, so one stands for all
InitErrors == {"eConn"}

\* the constructor returned: app.py:307 binds the new instance to chatbot
InitDone(r, me, coll) ==
    /\ chatbot' = "RAGChatbot"
    /\ index' = "VectorStoreIndex"
    /\ built' = Built(me.dir, Len(coll))
    /\ Finish(r, [me EXCEPT !.count = Len(coll), !.last = "ok"],
              Deliver(me.via, "InitializationError", Returned(<<>>)))

\* the constructor raised e: app.py:316-325, chatbot keeps its value
InitFailed(r, me, e, coll) ==
    /\ Finish(r, [me EXCEPT !.count = Len(coll), !.last = e],
              Deliver(me.via, "InitializationError",
                      Raised(Err("backend", e, FALSE))))
    /\ UNCHANGED <<chatbot, index>>

\* app.py:299-325 initialize_chatbot and rag_chatbot_ollama.py:20-84: the
\* handler has no await, so it runs from its first line to its last with no
\* other call between; Ollama(...) or HuggingFaceEmbedding(...) may raise
\* before the collection is touched
InitializeChatbot(r) ==
    \E d \in Dirs :
        /\ Idle(r, "app")
        /\ \A o \in Reqs : req[o].pc = "idle"
        /\ ncalls' = ncalls + 1
        /\ LET me == [IdleReq EXCEPT !.op = "init", !.via = "http", !.dir = d,
                                     !.before = built, !.prior = Len(collection),
                                     !.bot = chatbot]
           IN  \/ \E e \in InitErrors : InitFailed(r, me, e, collection)
               \/ /\ req' = [req EXCEPT ![r] = [me EXCEPT !.pc = "drop"]]
                  /\ UNCHANGED <<chatbot, index, resp>>
        /\ UNCHANGED <<dbvars, program, collection, engines, turns, oaIndex,
                       oaCollection, built>>

\* rag_chatbot_ollama.py:100-102 `except Exception: pass`: delete_collection
\* raised, _initialize_index goes on to its _create_index call
DropRaisedLeaves(r, me) ==
    /\ InitFailed(r, me, "eDrop", collection)
    /\ UNCHANGED <<collection, built>>
DropRaised(r, me) ==
    /\ req' = [req EXCEPT ![r] = [me EXCEPT !.pc = "create", !.call = 1]]
    /\ built' = NoBuild
    /\ UNCHANGED <<chatbot, index, resp, collection>>

\* rag_chatbot_ollama.py:87-106 _initialize_index: the collection is deleted,
\* or there is no collection of that name (none that holds a chunk, then)
\* and delete_collection raises; then _create_index is called
InitializeIndex(r) ==
    /\ req[r].pc = "drop"
    /\ \/ /\ collection' = DeleteCollection(collection)
          /\ built' = NoBuild
          /\ req' = [req EXCEPT ![r] = [@ EXCEPT !.pc = "create", !.call = 1,
                                                 !.dropped = "ok"]]
          /\ UNCHANGED <<chatbot, index, resp>>
       \/ /\ collection = <<>>
          /\ DropRaised(r, [req[r] EXCEPT !.dropped = "raised"])
    /\ UNCHANGED <<dbvars, program, engines, turns, ncalls, oaIndex, oaCollection>>

\* rag_chatbot_ollama.py:107-110: the first _create_index call raised e and
\* _initialize_index calls it once more; the second call's exception leaves
\* the constructor
CreateIndexRaised(r, me, e, coll) ==
    IF me.call = 1
    THEN /\ req' = [req EXCEPT ![r] = [me EXCEPT !.pc = "create", !.call = 2,
                                                 !.last = e]]
         /\ UNCHANGED <<chatbot, index, resp, built>>
    ELSE InitFailed(r, me, e, coll) /\ UNCHANGED built

\* rag_chatbot_ollama.py:112-173 _create_index up to from_documents: the
\* directory is looked at and its documents are loaded
CreateIndex(r) ==
    LET me == req[r] IN
    /\ me.pc = "create"
    /\ CASE me.dir.kind \in {"missing", "empty"} ->
                InitDone(r, me, collection)
         [] me.dir.kind = "unreadable" ->
                CreateIndexRaised(r, me, "eBad", collection)
         [] OTHER ->
                /\ req' = [req EXCEPT ![r] = [me EXCEPT !.pc = "build"]]
                /\ UNCHANGED <<chatbot, index, resp, built>>
    /\ UNCHANGED <<dbvars, program, collection, engines, turns, ncalls, oaIndex,
                   oaCollection>>

\* rag_chatbot_ollama.py:184-188 VectorStoreIndex.from_documents: the chunks
\* are embedded and written; a run that fails has written j of them
FromDocuments(r) ==
    LET me == [req[r] EXCEPT !.tries = @ + 1] IN
    /\ req[r].pc = "build"
    /\ \/ /\ collection' = collection \o Fresh(me.dir.n)
          /\ InitDone(r, me, collection')
       \/ \E e \in InitErrors, j \in 0..(me.dir.n - 1) :
            /\ collection' = collection \o Fresh(j)
            /\ CreateIndexRaised(r, me, e, collection')
    /\ UNCHANGED <<dbvars, program, engines, turns, ncalls, oaIndex, oaCollection>>

\* --------------------------------------------- the loops of rag_chatbot.py
\* max_attempts of the loop of each method
MaxAttempts(op) ==
    CASE op = "oa_query" -> QueryMaxAttempts
      [] op = "oa_chat" -> ChatMaxAttempts
      [] OTHER -> IndexMaxAttempts

\* the factor of wait_time = (attempt + 1) * base
BaseDelay(op) ==
    IF op \in {"oa_index", "oa_init"} THEN IndexBaseDelay ELSE QueryBaseDelay

\* nodes one from_documents run writes for the corpus
OaNodes == MaxChunks

\* rag_chatbot.py:163-176, :230-240, :268-278: the except clause of the
\* loop. The request after it: the loop goes on (pc stays "oa_attempt") or
\* the method has raised.
OaExceptRetryAll(me, e) ==
    IF me.attempt < MaxAttempts(me.op) - 1
    THEN [me EXCEPT !.attempt = @ + 1, !.last = e,
                    !.waits = Append(@, (me.attempt + 1) * BaseDelay(me.op))]
    ELSE [me EXCEPT !.pc = "done", !.last = e,
                    !.out = Raised(Err("backend", e, FALSE))]
OaExcept(me, e) ==
    IF IsRateLimit(e)
    THEN IF me.attempt < MaxAttempts(me.op) - 1
         THEN \* wait_time is computed, then time.sleep(wait_time) looks the
              \* name `time` up in the module
              IF "time" \in OpenAIModuleNames
              THEN [me EXCEPT !.attempt = @ + 1, !.last = e,
                      !.waits = Append(@, (me.attempt + 1) * BaseDelay(me.op))]
              ELSE [me EXCEPT !.pc = "done", !.last = e,
                      !.out = Raised(Err("NameError", e, FALSE))]
         ELSE IF me.op \in {"oa_index", "oa_init"}
              THEN [me EXCEPT !.pc = "done", !.last = e,
                      !.out = Raised(Err("backend", e, FALSE))]
              ELSE [me EXCEPT !.pc = "done", !.last = e,
                      !.out = Raised(Err("Exception", e, FALSE))]
    ELSE [me EXCEPT !.pc = "done", !.last = e,
                    !.out = Raised(Err("backend", e, FALSE))]

\* rag_chatbot.py:205-222 query and :242-260 chat, up to the loop; the
\* instance exists once its constructor has set the index
OaCall(r) ==
    \E q \in Questions, op \in {"oa_query", "oa_chat"} :
        /\ Idle(r, "openai")
        /\ oaIndex # "None"
        /\ ncalls' = ncalls + 1
        /\ LET me == [IdleReq EXCEPT !.op = op, !.via = "direct", !.q = q]
           IN  IF oaIndex = "None"
               THEN Finish(r, me, Raised(Err("ValueError", "none", FALSE)))
               ELSE /\ req' = [req EXCEPT ![r] = [me EXCEPT !.pc = "oa_attempt"]]
                    /\ UNCHANGED resp
        /\ UNCHANGED <<dbvars, program, built, chatbot, index, collection, engines, turns,
                       oaIndex, oaCollection>>

\* rag_chatbot.py:97-151 _create_index up to the loop. dir is the corpus
\* directory: missing, without a PDF file, with PDF files, or with PDF
\* files load_data cannot read.
OaCreateIndex(r) ==
    \E dir \in {"missing", "empty", "pdfs", "unreadable"} :
        /\ Idle(r, "openai")
        /\ ncalls' = ncalls + 1
        /\ LET me == [IdleReq EXCEPT !.op = "oa_index", !.via = "direct"]
           IN  CASE dir \in {"missing", "empty"} ->
                      /\ oaIndex' = "VectorStoreIndex"
                      /\ Finish(r, me, Returned(<<>>))
                 [] dir = "unreadable" ->
                      /\ Finish(r, me, Raised(Err("ReaderError", "none", FALSE)))
                      /\ UNCHANGED oaIndex
                 [] OTHER ->
                      /\ req' = [req EXCEPT ![r] = [me EXCEPT !.pc = "oa_attempt"]]
                      /\ UNCHANGED <<oaIndex, resp>>
        /\ UNCHANGED <<dbvars, program, built, chatbot, index, collection, engines, turns, oaCollection>>

\* rag_chatbot.py:65-95 _initialize_index, called by the constructor (:63):
\* a collection that holds nodes is loaded as it is, whatever the corpus
\* directory; an empty one is built by _create_index, and any exception of
\* that is answered by calling _create_index once more
OaInitializeIndex(r) ==
    \E d \in Dirs :
        /\ Idle(r, "openai")
        /\ \A o \in Reqs : req[o].pc = "idle"
        /\ ncalls' = ncalls + 1
        /\ LET me == [IdleReq EXCEPT !.op = "oa_init", !.via = "direct",
                                     !.dir = d, !.before = built,
                                     !.call = 1, !.prior = oaCollection,
                                     !.count = oaCollection]
           IN  CASE oaCollection > 0 \/ d.kind \in {"missing", "empty"} ->
                      /\ oaIndex' = "VectorStoreIndex"
                      /\ built' = Built(d, oaCollection)
                      /\ Finish(r, [me EXCEPT !.last = "ok"], Returned(<<>>))
                 [] d.kind = "unreadable" ->
                      /\ Finish(r, [me EXCEPT !.call = 2, !.last = "eBad"],
                                Raised(Err("ReaderError", "none", FALSE)))
                      /\ UNCHANGED <<oaIndex, built>>
                 [] OTHER ->
                      /\ req' = [req EXCEPT ![r] = [me EXCEPT !.pc = "oa_attempt"]]
                      /\ UNCHANGED <<oaIndex, resp, built>>
        /\ UNCHANGED <<dbvars, program, chatbot, index, collection, engines, turns,
                       oaCollection>>

\* one pass of the loop body: the backend call and, when it raises, the
\* except clause. A from_documents run that fails has written j of its nodes.
\* When _create_index raises inside _initialize_index for the first time,
\* rag_chatbot.py:92-95 calls it again from its first line, with a loop of
\* its own.
OaAttempt(r) ==
    LET me == [req[r] EXCEPT !.tries = @ + 1, !.gen = @ + 1] IN
    /\ req[r].pc = "oa_attempt"
    /\ \/ /\ me.op \in {"oa_index", "oa_init"}
          /\ oaIndex' = "VectorStoreIndex"
          /\ oaCollection' = oaCollection + OaNodes
          /\ built' = IF me.op = "oa_init" THEN Built(me.dir, oaCollection')
                      ELSE built
          /\ Finish(r, [me EXCEPT !.last = "ok", !.count = oaCollection'],
                    Returned(<<>>))
       \/ /\ me.op \notin {"oa_index", "oa_init"}
          /\ \E t \in Texts :
                Finish(r, [me EXCEPT !.last = "ok", !.text = t], Returned(t))
          /\ UNCHANGED <<oaIndex, oaCollection, built>>
       \/ \E e \in BackendErrors :
            \E j \in IF me.op \in {"oa_index", "oa_init"}
                     THEN 0..(OaNodes - 1) ELSE {0} :
                /\ oaCollection' = oaCollection + j
                /\ LET after == [OaExcept(me, e) EXCEPT !.count = oaCollection']
                   IN  IF after.pc # "done"
                       THEN req' = [req EXCEPT ![r] = after] /\ UNCHANGED resp
                       ELSE IF me.op = "oa_init" /\ me.call = 1
                       THEN /\ req' = [req EXCEPT ![r] =
                                   [after EXCEPT !.pc = "oa_attempt", !.call = 2,
                                                 !.attempt = 0, !.tries = 0,
                                                 !.waits = <<>>, !.last = "none",
                                                 !.out = NoOut]]
                            /\ UNCHANGED resp
                       ELSE Finish(r, after, after.out)
                /\ UNCHANGED <<oaIndex, built>>
    /\ UNCHANGED <<dbvars, program, chatbot, index, collection, engines, turns, ncalls>>

\* ------------------------------------------------------------------- spec
Next ==
    \E r \in Reqs :
        \/ ChatWithBot(r)
        \/ ChatDirect(r)
        \/ ChatRetrieve(r)
        \/ ChatGenerate(r)
        \/ ResetChatSession(r)
        \/ QueryChatbot(r)
        \/ QueryRun(r)
        \/ InitializeChatbot(r)
        \/ InitializeIndex(r)
        \/ CreateIndex(r)
        \/ FromDocuments(r)
        \/ OaCall(r)
        \/ OaCreateIndex(r)
        \/ OaInitializeIndex(r)
        \/ OaAttempt(r)

Spec == Init /\ [][Next]_vars

\* ============================================================ History Store
\* A session is a transaction of PostgreSQL at its default isolation: what
\* it writes is seen by the others from its commit on, all at once; rollback
\* leaves nothing of it; every statement of a reader sees what is committed
\* when the statement runs.

\* the committed chats and messages, as one value
Store(cs, ms) == [chats |-> cs, messages |-> ms]

\* database.py:254, :303, :350, :367 session.rollback(): the writes the
\* session has flushed or executed are undone
RollbackKeepsFlushed(store, me) ==
    Store(IF me.op = "create" THEN store.chats \cup {me.row} ELSE store.chats,
          Keep(store.messages, me.del))
Rollback(store, me) == store

\* database.py:177-186 INSERT ... ON CONFLICT (email) DO UPDATE ... RETURNING:
\* the row the statement leaves, seq being the value drawn for users.id
UpsertInsertOnly(rows, email, name, seq) == UserRow(seq, email, name)
Upsert(rows, email, name, seq) ==
    IF \E r \in rows : r.email = email
    THEN UserRow((CHOOSE r \in rows : r.email = email).id, email, name)
    ELSE UserRow(seq, email, name)

\* database.py:265 and :314  where(Chat.id == chat_id, Chat.user_id == user_id)
GetWhereAnyUser(row, c, u) == row.id = c
GetWhere(row, c, u) == row.id = c /\ row.user_id = u

\* database.py:360  delete(Chat).where(Chat.id == chat_id, Chat.user_id == user_id)
DeleteWhereAnyUser(row, c, u) == row.id = c
DeleteWhere(row, c, u) == row.id = c /\ row.user_id = u

\* database.py:81  ForeignKey("chats.id", ondelete="CASCADE"): the messages
\* left when chat c is deleted
CascadeNone(msgs, c) == msgs
Cascade(msgs, c) == Keep(msgs, MsgIds(msgs, c))

\* database.py:326  `if messages is not None`
ReplacesAlways(m) == TRUE
Replaces(m) == m.some

\* the committed row of chat c, if there is one
HasChat(c) == \E row \in chats : row.id = c
TheChat(c) == CHOOSE row \in chats : row.id = c
\* the committed version of chat c
Stored(c) ==
    IF HasChat(c) THEN Version(TheChat(c).title, MsgsOf(messages, c))
    ELSE Version("none", MsgsOf(messages, c))

\* the chats that can come first in the list of user u: those of u whose
\* updated_at no other chat of u is above
First(rows, u) ==
    {f[1].id : f \in {f \in OrderByUpdatedAtDesc({row \in rows : row.user_id = u}) :
                         Len(f) > 0}}

\* the chat ids a caller may name: those handed out
ChatIds == 1..chatSeq

\* session t can take a call; the sessions are alike, a call takes the
\* lowest free one
DbIdle(t) ==
    /\ program = "db"
    /\ tx[t].pc = "idle"
    /\ dbcalls < MaxDbCalls
    /\ \A o \in Txs : o < t => tx[o].pc # "idle"

\* the call of session t ends with res: the session is closed
DbFinish(t, me, res) ==
    /\ tx' = [tx EXCEPT ![t] = IdleTx]
    /\ dbresp' = [me EXCEPT !.pc = "done", !.res = res]

\* another session holds the row of chat c locked by a DELETE not yet committed
DeletePending(t, c) ==
    \E o \in Txs \ {t} :
        tx[o].op = "delete" /\ tx[o].pc = "commit" /\ tx[o].chat = c
        /\ tx[o].was = "hit"

\* The History Store the server finds: a user and a chat of theirs with two
\* messages, left by an earlier run.
InitDB ==
    /\ program = "db"
    /\ chatbot = "None"
    /\ index = "None"
    /\ collection = <<>>
    /\ engines = <<>>
    /\ turns = [s \in Sessions |-> <<>>]
    /\ req = [r \in Reqs |-> IdleReq]
    /\ resp = IdleReq
    /\ ncalls = 0
    /\ oaIndex = "None"
    /\ oaCollection = 0
    /\ built = NoBuild
    /\ tx = [t \in Txs |-> IdleTx]
    /\ dbresp = IdleTx
    /\ dbcalls = 0
    /\ users = {UserRow(1, "a@x", "n1")}
    /\ userSeq = 2
    /\ chats = {ChatRow(1, "t1", 1, 0)}
    /\ chatSeq = 1
    /\ messages = NewRows(<<Msg("user", "hi"), Msg("bot", "yo")>>, 1, 1, 0)
    /\ msgSeq = 3
    /\ firstId = [e \in Emails |-> IF e = "a@x" THEN 1 ELSE 0]
    /\ kept = <<{Version("t1", <<Msg("user", "hi"), Msg("bot", "yo")>>)}>>

\* ------------------------------------------------------------- create_user
\* app.py:437-511 create_user and database.py:162-189: the upsert statement
\* runs; a second upsert of the same email waits for the first to end
DbCreateUser(t) ==
    \E e \in Emails, n \in Names :
        /\ DbIdle(t)
        /\ \A o \in Txs : ~(tx[o].op = "user" /\ tx[o].email = e)
        /\ dbcalls' = dbcalls + 1
        /\ LET row == Upsert(users, e, n, userSeq)
               me == [IdleTx EXCEPT !.op = "user", !.via = "http", !.email = e,
                                    !.name = n, !.seq = userSeq, !.user = row.id,
                                    !.was = IF \E r \in users : r.email = e
                                            THEN (CHOOSE r \in users : r.email = e).name
                                            ELSE "none"]
           IN  \/ /\ tx' = [tx EXCEPT ![t] = [me EXCEPT !.pc = "commit"]]
                  /\ userSeq' = userSeq + 1
                  /\ UNCHANGED dbresp
               \/ /\ DbFinish(t, [me EXCEPT !.failed = "execute"], RaiseRes)
                  /\ UNCHANGED userSeq
        /\ UNCHANGED <<botvars, users, chats, chatSeq, messages, msgSeq, firstId, kept>>

\* database.py:190-197: the commit, or its failure and the rollback
DbUserCommit(t) ==
    LET me == tx[t]
        row == UserRow(me.user, me.email, me.name)
    IN
    /\ me.op = "user" /\ me.pc = "commit"
    /\ \/ /\ users' = {r \in users : r.id # row.id} \cup {row}
          /\ firstId' = [firstId EXCEPT ![me.email] = IF @ = 0 THEN row.id ELSE @]
          /\ DbFinish(t, me, DictRes(row.id, row.name, <<>>))
       \/ /\ DbFinish(t, [me EXCEPT !.failed = "commit"], RaiseRes)
          /\ UNCHANGED <<users, firstId>>
    /\ UNCHANGED <<botvars, userSeq, chats, chatSeq, messages, msgSeq, dbcalls, kept>>

\* ------------------------------------------------------------- create_chat
\* app.py:633-690 create_chat and database.py:222-229: the chat id is made,
\* the chat row is added and flushed; the flush fails when user_id has no row
DbCreateChat(t) ==
    \E title \in {"t1"}, u \in UserIds, l \in CreateLists :
        /\ DbIdle(t)
        /\ dbcalls' = dbcalls + 1
        /\ chatSeq' = chatSeq + 1
        /\ kept' = Append(kept, {})
        /\ LET me == [IdleTx EXCEPT !.op = "create", !.via = "http", !.user = u,
                                    !.chat = chatSeq', !.title = title,
                                    !.msgs = Some(l), !.at = dbcalls',
                                    !.row = ChatRow(chatSeq', title, u, dbcalls')]
           IN  \/ /\ \E r \in users : r.id = u
                  /\ tx' = [tx EXCEPT ![t] = [me EXCEPT !.pc = "commit"]]
                  /\ UNCHANGED <<dbresp, chats, messages>>
               \/ LET s == Rollback(Store(chats, messages), me)
                  IN  /\ chats' = s.chats
                      /\ messages' = s.messages
                      /\ DbFinish(t, [me EXCEPT !.failed = "flush"], RaiseRes)
        /\ UNCHANGED <<botvars, users, userSeq, msgSeq, firstId>>

\* database.py:232-241 and :253-258: the messages are added and the commit
\* writes them with the chat row, or it fails and the session is rolled back
DbCreateCommit(t) ==
    LET me == tx[t] IN
    /\ me.op = "create" /\ me.pc = "commit"
    /\ \/ /\ \E r \in users : r.id = me.user
          /\ chats' = chats \cup {me.row}
          /\ messages' = messages \o NewRows(me.msgs.val, me.chat, msgSeq, me.at)
          /\ msgSeq' = msgSeq + Len(me.msgs.val)
          /\ kept' = [kept EXCEPT ![me.chat] =
                         {Version(me.title, MsgsOf(messages', me.chat))}]
          /\ tx' = [tx EXCEPT ![t] =
                       [me EXCEPT !.pc = "reread",
                                  !.after = Version(me.title, MsgsOf(messages', me.chat))]]
          /\ UNCHANGED dbresp
       \/ LET s == Rollback(Store(chats, messages), me)
          IN  /\ chats' = s.chats
              /\ messages' = s.messages
              /\ DbFinish(t, [me EXCEPT !.failed = "commit"], RaiseRes)
              /\ UNCHANGED <<msgSeq, kept>>
    /\ UNCHANGED <<botvars, users, userSeq, chatSeq, dbcalls, firstId>>

\* database.py:243-252 and :342-348: the chat is read again with its
\* messages; scalar_one raises when the row is gone
DbReread(t) ==
    LET me == tx[t] IN
    /\ me.op \in {"create", "update"} /\ me.pc = "reread"
    /\ \/ /\ HasChat(me.chat)
          /\ \E l \in ChatMessages(messages, me.chat) :
                DbFinish(t, me, DictRes(me.chat, TheChat(me.chat).title, l))
       \/ DbFinish(t, [me EXCEPT !.failed = "reread"], RaiseRes)
    /\ UNCHANGED <<botvars, users, userSeq, chats, chatSeq, messages, msgSeq,
                   dbcalls, firstId, kept>>

\* ---------------------------------------------------------------- get_chat
\* app.py:569-599 get_chat and database.py:260-268: the chat row is selected
\* by id and user_id; without a row the method returns None (404)
DbGetChat(t) ==
    \E c \in ChatIds, u \in UserIds :
        /\ DbIdle(t)
        /\ dbcalls' = dbcalls + 1
        /\ LET me == [IdleTx EXCEPT !.op = "get", !.via = "http", !.user = u,
                                    !.chat = c, !.v0 = Stored(c),
                                    !.was = IF ~HasChat(c) THEN "absent"
                                            ELSE IF TheChat(c).user_id = u THEN "own"
                                            ELSE "other"]
           IN  IF \E row \in chats : GetWhere(row, c, u)
               THEN /\ tx' = [tx EXCEPT ![t] =
                                 [me EXCEPT !.pc = "load",
                                            !.row = CHOOSE row \in chats : GetWhere(row, c, u)]]
                    /\ UNCHANGED dbresp
               ELSE DbFinish(t, me, NoneRes)
        /\ UNCHANGED <<botvars, users, userSeq, chats, chatSeq, messages, msgSeq,
                       firstId, kept>>

\* database.py:266-270 selectinload(Chat.messages): a second statement reads
\* the messages of the row; to_dict makes the result
DbGetLoad(t) ==
    LET me == [tx[t] EXCEPT !.v1 = Stored(tx[t].chat),
                            !.ats = {row.created_at :
                                        row \in RowsOf(messages, tx[t].chat)}]
    IN
    /\ me.op = "get" /\ me.pc = "load"
    /\ \E l \in ChatMessages(messages, me.chat) :
          DbFinish(t, me, DictRes(me.row.id, me.row.title, l))
    /\ UNCHANGED <<botvars, users, userSeq, chats, chatSeq, messages, msgSeq,
                   dbcalls, firstId, kept>>

\* ------------------------------------------------------------- update_chat
\* what update_chat is called with: a request (app.py:769-776) with a new
\* title and no message, one with the title the chats are created with and
\* two messages, one without messages, which is refused; and the method
\* called with None for title or messages (database.py:309-315)
UpdateInputs ==
    {[via |-> "http", title |-> "t2", msgs |-> Some(<<>>)]}
        \cup {[via |-> "http", title |-> "t1",
               msgs |-> Some(<<Msg("user", "q"), Msg("bot", "a")>>)],
              [via |-> "http", title |-> "t2", msgs |-> NoMsgs],
              [via |-> "direct", title |-> "t2", msgs |-> NoMsgs],
              [via |-> "direct", title |-> "none",
               msgs |-> Some(<<Msg("user", "q"), Msg("bot", "a")>>)]}

\* app.py:746-776 update_chat and database.py:309-323: over HTTP title and
\* messages are required fields (app.py:197-202), a request without them is
\* answered 422 before the handler runs; the method itself takes None for
\* either. The chat row is selected by id and user_id.
DbUpdateChat(t) ==
    \E in \in UpdateInputs, c \in ChatIds, u \in UserIds :
        LET via == in.via
            title == in.title
            m == in.msgs
        IN
        /\ DbIdle(t)
        /\ dbcalls' = dbcalls + 1
        /\ LET me == [IdleTx EXCEPT !.op = "update", !.via = via, !.user = u,
                                    !.chat = c, !.title = title, !.msgs = m,
                                    !.at = dbcalls',
                                    !.before = Stored(c), !.after = Stored(c)]
           IN  IF via = "http" /\ (title = "none" \/ ~m.some)
               THEN DbFinish(t, [me EXCEPT !.failed = "validation"],
                             [RaiseRes EXCEPT !.kind = "invalid", !.status = "422"])
               ELSE IF \E row \in chats : GetWhere(row, c, u)
               THEN /\ tx' = [tx EXCEPT ![t] =
                                 [me EXCEPT !.pc = IF Replaces(m) THEN "delete"
                                                   ELSE "commit",
                                            !.row = CHOOSE row \in chats : GetWhere(row, c, u)]]
                    /\ UNCHANGED dbresp
               ELSE DbFinish(t, me, NoneRes)
        /\ UNCHANGED <<botvars, users, userSeq, chats, chatSeq, messages, msgSeq,
                       firstId, kept>>

\* another session holds message rows of chat c locked by the DELETE of an
\* update_chat not yet committed
ReplacePending(t, c) ==
    \E o \in Txs \ {t} :
        tx[o].op = "update" /\ tx[o].pc = "commit" /\ tx[o].chat = c
        /\ tx[o].del \cap MsgIds(messages, c) # {}

\* database.py:326-329: DELETE FROM messages WHERE chat_id = ... runs on the
\* rows committed now, after the sessions that hold them locked have ended;
\* or it fails and the session is rolled back
DbUpdateDelete(t) ==
    LET me == tx[t] IN
    /\ me.op = "update" /\ me.pc = "delete"
    /\ ~DeletePending(t, me.chat)
    /\ ~ReplacePending(t, me.chat)
    /\ \/ /\ tx' = [tx EXCEPT ![t] =
                       [me EXCEPT !.pc = "commit", !.del = MsgIds(messages, me.chat)]]
          /\ UNCHANGED <<dbresp, chats, messages>>
       \/ LET s == Rollback(Store(chats, messages), me)
          IN  /\ chats' = s.chats
              /\ messages' = s.messages
              /\ DbFinish(t, [me EXCEPT !.failed = "delete",
                                        !.before = Stored(me.chat),
                                        !.after = Version(Stored(me.chat).title,
                                                          MsgsOf(messages', me.chat))],
                          RaiseRes)
    /\ UNCHANGED <<botvars, users, userSeq, chatSeq, msgSeq, dbcalls, firstId, kept>>

\* database.py:331-340 and :349-354: the new messages are added and the
\* commit writes the title, the deletion and the new rows; the UPDATE of a
\* row that is gone and the INSERT of a message of a chat that is gone fail.
\* The chats row is written, and its updated_at set by onupdate
\* (database.py:56), only when the title assigned differs from the one read.
DbUpdateCommit(t) ==
    LET me == tx[t]
        c == me.chat
        newtitle == IF me.title # "none" THEN me.title ELSE me.row.title
        writesTitle == me.title # "none" /\ me.title # me.row.title
        inserts == IF Replaces(me.msgs) THEN me.msgs.val ELSE <<>>
    IN
    /\ me.op = "update" /\ me.pc = "commit"
    /\ ~DeletePending(t, c)
    /\ \/ /\ HasChat(c) \/ (~writesTitle /\ inserts = <<>>)
          /\ chats' = {IF row.id = c
                        THEN ChatRow(c, newtitle, row.user_id,
                                     IF writesTitle THEN me.at ELSE row.updated_at)
                        ELSE row : row \in chats}
          /\ messages' = Keep(messages, me.del) \o NewRows(inserts, c, msgSeq, me.at)
          /\ msgSeq' = msgSeq + Len(inserts)
          /\ kept' = IF HasChat(c)
                     THEN [kept EXCEPT ![c] =
                              @ \cup {Version(newtitle, MsgsOf(messages', c))}]
                     ELSE kept
          /\ tx' = [tx EXCEPT ![t] =
                       [me EXCEPT !.pc = "reread",
                                  !.before = Stored(c),
                                  !.after = Version(newtitle, MsgsOf(messages', c)),
                                  !.top = First(chats', me.row.user_id),
                                  !.frame = (me.del = MsgIds(messages, c)
                                             \/ ~Replaces(me.msgs))]]
          /\ UNCHANGED dbresp
       \/ LET s == Rollback(Store(chats, messages), me)
          IN  /\ chats' = s.chats
              /\ messages' = s.messages
              /\ DbFinish(t, [me EXCEPT !.failed = "commit",
                                        !.before = Stored(c),
                                        !.after = Version(Stored(c).title,
                                                          MsgsOf(messages', c))],
                          RaiseRes)
              /\ UNCHANGED <<msgSeq, kept>>
    /\ UNCHANGED <<botvars, users, userSeq, chatSeq, dbcalls, firstId>>

\* ------------------------------------------------------------- delete_chat
\* app.py:820-855 delete_chat and database.py:356-361: the DELETE runs on
\* the row of that id and user_id; a second DELETE of the row waits for the
\* first to end
DbDeleteChat(t) ==
    \E c \in ChatIds, u \in UserIds :
        /\ DbIdle(t)
        /\ ~DeletePending(t, c)
        /\ dbcalls' = dbcalls + 1
        /\ LET me == [IdleTx EXCEPT !.op = "delete", !.via = "http", !.user = u,
                                    !.chat = c,
                                    !.row = IF HasChat(c) THEN TheChat(c) ELSE @,
                                    !.was = IF \E row \in chats : DeleteWhere(row, c, u)
                                            THEN "hit" ELSE "miss"]
           IN  \/ /\ tx' = [tx EXCEPT ![t] = [me EXCEPT !.pc = "commit"]]
                  /\ UNCHANGED dbresp
               \/ DbFinish(t, [me EXCEPT !.failed = "execute"], RaiseRes)
        /\ UNCHANGED <<botvars, users, userSeq, chats, chatSeq, messages, msgSeq,
                       firstId, kept>>

\* database.py:362-371: the commit removes the row and, by the foreign key,
\* its messages; the method returns rowcount > 0 (False is answered 404)
DbDeleteCommit(t) ==
    LET me == tx[t]
        c == me.chat
    IN
    /\ me.op = "delete" /\ me.pc = "commit"
    /\ \/ /\ chats' = IF me.was = "hit" THEN {row \in chats : row.id # c} ELSE chats
          /\ messages' = IF me.was = "hit" THEN Cascade(messages, c) ELSE messages
          /\ DbFinish(t, [me EXCEPT !.before = Stored(c),
                                    !.frame = (chats' = chats /\ messages' = messages)],
                      IF me.was = "hit"
                      THEN [NoRes EXCEPT !.kind = "True", !.status = "200"]
                      ELSE [NoRes EXCEPT !.kind = "False", !.status = "404"])
       \/ /\ DbFinish(t, [me EXCEPT !.failed = "commit"], RaiseRes)
          /\ UNCHANGED <<chats, messages>>
    /\ UNCHANGED <<botvars, users, userSeq, chatSeq, msgSeq, dbcalls, firstId, kept>>

\* ------------------------------------------------------------- add_message
\* database.py:284-298 add_message: the message is added and the chat's
\* updated_at is set, by chat id alone; u is the user the caller acts for,
\* whom the method is not told
DbAddMessage(t) ==
    \E c \in ChatIds, u \in UserIds :
        /\ DbIdle(t)
        /\ dbcalls' = dbcalls + 1
        /\ LET me == [IdleTx EXCEPT !.op = "add", !.via = "direct", !.chat = c,
                                    !.user = u, !.at = dbcalls',
                                    !.msgs = Some(<<Msg("bot", "yo")>>)]
           IN  \/ /\ tx' = [tx EXCEPT ![t] = [me EXCEPT !.pc = "commit"]]
                  /\ UNCHANGED dbresp
               \/ DbFinish(t, [me EXCEPT !.failed = "execute"], RaiseRes)
        /\ UNCHANGED <<botvars, users, userSeq, chats, chatSeq, messages, msgSeq,
                       firstId, kept>>

\* database.py:300-307: the commit writes the message and the chat's
\* updated_at; the INSERT of a message of a chat that has no row fails
DbAddCommit(t) ==
    LET me == tx[t]
        c == me.chat
    IN
    /\ me.op = "add" /\ me.pc = "commit"
    /\ ~DeletePending(t, c)
    /\ \/ /\ HasChat(c)
          /\ chats' = {IF row.id = c
                        THEN ChatRow(c, row.title, row.user_id, me.at)
                        ELSE row : row \in chats}
          /\ messages' = messages \o NewRows(me.msgs.val, c, msgSeq, me.at)
          /\ msgSeq' = msgSeq + 1
          /\ kept' = [kept EXCEPT ![c] =
                         @ \cup {Version(TheChat(c).title, MsgsOf(messages', c))}]
          /\ DbFinish(t, [me EXCEPT !.row = TheChat(c), !.before = Stored(c),
                                    !.after = Version(TheChat(c).title,
                                                      MsgsOf(messages', c))],
                      [NoRes EXCEPT !.kind = "True", !.status = "200"])
       \/ /\ DbFinish(t, [me EXCEPT !.failed = "commit"], RaiseRes)
          /\ UNCHANGED <<chats, messages, msgSeq, kept>>
    /\ UNCHANGED <<botvars, users, userSeq, chatSeq, dbcalls, firstId>>

\* --------------------------------------------------------------- get_chats
\* app.py:540-549: the entry of the list made of a dict of
\* get_chats_by_user, its messages the empty list
ChatHistory(d) ==
    [id |-> d.id, title |-> d.title, userId |-> d.user_id,
     updatedAt |-> d.updated_at, messages |-> <<>>]

\* app.py:516-556 get_chats and database.py:272-282 get_chats_by_user: one
\* SELECT of the chat rows of user_id, ordered by updated_at descending
DbGetChats(t) ==
    \E u \in UserIds :
        LET rows == {row \in chats : row.user_id = u} IN
        /\ DbIdle(t)
        /\ dbcalls' = dbcalls + 1
        /\ \E f \in OrderByUpdatedAtDesc(rows) :
              DbFinish(t, [IdleTx EXCEPT !.op = "list", !.via = "http", !.user = u,
                                         !.owned = {row.id : row \in rows},
                                         !.top = First(chats, u),
                                         !.list = [i \in 1..Len(f) |->
                                                      ChatHistory(ChatDict(f[i]))]],
                       [NoRes EXCEPT !.kind = "list", !.status = "200"])
        /\ UNCHANGED <<botvars, users, userSeq, chats, chatSeq, messages, msgSeq,
                       firstId, kept>>

\* ------------------------------------------------------- userId of a request
\* the handlers that take a userId: get_chats, get_chat, create_chat,
\* update_chat, delete_chat
UserIdOps == {"list", "get", "create", "update", "delete"}

\* app.py:619-620, :721-722, :806-807, :856-857: the handlers whose outer
\* try has `except HTTPException: raise` before `except Exception`;
\* get_chats (app.py:557) has the second clause only
ReRaisesHttp(op) == op # "list"

\* what the outer try of handler op makes of the HTTPException its body
\* raised: the exception itself, or the 500 of `except Exception`
HandlerError(op) ==
    CASE op = "list" -> "ChatListError"
      [] op = "get" -> "ChatRetrievalError"
      [] op = "create" -> "ChatCreationError"
      [] op = "update" -> "ChatUpdateError"
      [] OTHER -> "ChatDeletionError"
Outer(op, status, kind) ==
    IF ReRaisesHttp(op)
    THEN [RaiseRes EXCEPT !.kind = kind, !.status = status]
    ELSE [RaiseRes EXCEPT !.kind = HandlerError(op), !.status = "500"]

\* app.py:524-535, :577-588, :672-683, :757-768, :828-839: int(userId)
\* raises ValueError, the handler raises the 400 InvalidUserId inside its
\* outer try and calls no method of the History Store
DbInvalidUserId(t) ==
    \E op \in UserIdOps :
        /\ DbIdle(t)
        /\ dbcalls' = dbcalls + 1
        /\ DbFinish(t, [IdleTx EXCEPT !.op = op, !.via = "http", !.failed = "userId"],
                    Outer(op, "400", "InvalidUserId"))
        /\ UNCHANGED <<botvars, users, userSeq, chats, chatSeq, messages, msgSeq,
                       firstId, kept>>

NextDB ==
    \E t \in Txs :
        \/ DbInvalidUserId(t)
        \/ DbCreateUser(t)
        \/ DbUserCommit(t)
        \/ DbCreateChat(t)
        \/ DbCreateCommit(t)
        \/ DbReread(t)
        \/ DbGetChat(t)
        \/ DbGetLoad(t)
        \/ DbUpdateChat(t)
        \/ DbUpdateDelete(t)
        \/ DbUpdateCommit(t)
        \/ DbDeleteChat(t)
        \/ DbDeleteCommit(t)
        \/ DbAddMessage(t)
        \/ DbAddCommit(t)
        \/ DbGetChats(t)

SpecDB == InitDB /\ [][NextDB]_vars

\* ----------------------------------------------------------------- claims
ChatEnded == resp.op = "chat" /\ resp.pc = "done"
Succeeded(o) == o.status \in {"return", "200"}
OaOps == {"oa_query", "oa_chat", "oa_index"}

\* the length of t between its first and its last character that is not
\* whitespace, both included; 0 when it has none
TrimmedLen(t) ==
    LET solid == {i \in 1..Len(t) : t[i] \notin Whitespace}
    IN  IF solid = {} THEN 0
        ELSE (CHOOSE i \in solid : \A j \in solid : j <= i)
             - (CHOOSE i \in solid : \A j \in solid : i <= j) + 1

\* C1: with no reset in between, a chat call for session s whose question
\* reaches generation is answered from the history of the turns answered
\* for s before it (the handle of the first call, reused).
C1_SessionReuse ==
    (ChatEnded /\ resp.gen > 0)
        => resp.seen = SubSeq(turns[resp.sid], 1, resp.prior)

\* C2: on an initialized chatbot every reset_session request ends in
\* success.
C2_ResetSucceeds ==
    (resp.op = "reset" /\ resp.pc = "done" /\ chatbot # "None")
        => resp.out.status = "200"

\* C3: two chat calls for the same session id that are in flight together
\* hold one and the same conversation handle.
C3_OneHandlePerSession ==
    \A a \in Reqs, b \in Reqs :
        (/\ req[a].op = "chat" /\ req[b].op = "chat"
         /\ req[a].h # 0 /\ req[b].h # 0
         /\ req[a].sid = req[b].sid)
            => req[a].h = req[b].h

\* C4: the history generation is given for a chat call made for session s
\* holds only turns made for s, whatever calls for other sessions ran before
\* or beside it; no engine memory ever mixes the turns of two sessions.
C4_SessionIsolation ==
    /\ (ChatEnded /\ resp.gen > 0)
           => \A i \in 1..Len(resp.seen) : resp.seen[i].sid = resp.sid
    /\ \A h \in 1..Len(engines) :
           \A i \in 1..Len(engines[h]), j \in 1..Len(engines[h]) :
               engines[h][i].sid = engines[h][j].sid

\* an s2 call was answered by generation after a turn was answered for s1
C4_Witness ==
    /\ ChatEnded /\ resp.gen > 0 /\ resp.last = "ok"
    /\ resp.sid = "s2"
    /\ turns["s1"] # <<>>
    /\ turns["s2"] # <<>>

\* C5: once a reset_session(s) request has ended, session s is
\* UNINITIALIZED: the request succeeded and nothing of s's turns is left.
C5_ResetReturnsToUninitialized ==
    (resp.op = "reset" /\ resp.pc = "done" /\ chatbot # "None")
        => /\ Succeeded(resp.out)
           /\ turns[resp.sid] = <<>>
           /\ \A h \in 1..Len(engines) :
                  \A i \in 1..Len(engines[h]) : engines[h][i].sid # resp.sid

\* C6: a chat call whose relevance retrieval returned no chunk (as it does
\* on an empty collection) returns the refusal sentence as a success and has
\* not invoked generation; no call with an empty retrieval waits for
\* generation.
C6_EmptyRetrievalRefuses ==
    /\ (ChatEnded /\ resp.retrieved /\ Len(resp.nodes) = 0)
           => /\ Succeeded(resp.out)
              /\ resp.out.answer = Refusal
              /\ resp.gen = 0
    /\ \A r \in Reqs :
           /\ req[r].pc = "generate" => Len(req[r].nodes) > 0
           /\ (req[r].pc = "retrieve" /\ collection = <<>>)
                 => Retrieve(collection, req[r].q, ChatTopK) = <<>>

\* a chat on the empty collection ended with the refusal, generation unused
C6_Witness ==
    /\ ChatEnded /\ resp.retrieved
    /\ collection = <<>>
    /\ resp.out = Returned(Refusal)
    /\ resp.gen = 0

\* C7: when generation returned text t to a chat call, the call returns the
\* refusal sentence if t trimmed is shorter than the threshold and t itself,
\* unchanged, otherwise; no answer other than the refusal is shorter than
\* the threshold when trimmed.
C7_PostCheck ==
    /\ (ChatEnded /\ resp.gen > 0 /\ resp.last = "ok")
           => /\ Succeeded(resp.out)
              /\ TrimmedLen(resp.text) < MinAnswerLen => resp.out.answer = Refusal
              /\ TrimmedLen(resp.text) >= MinAnswerLen => resp.out.answer = resp.text
    /\ (ChatEnded /\ Succeeded(resp.out) /\ resp.out.answer # Refusal)
           => TrimmedLen(resp.out.answer) >= MinAnswerLen

\* generation returned a text of at least threshold length whose trimmed
\* length is below it, and the call returned the refusal
C7_Witness ==
    /\ ChatEnded /\ resp.gen > 0 /\ resp.last = "ok"
    /\ Len(resp.text) >= MinAnswerLen
    /\ TrimmedLen(resp.text) < MinAnswerLen
    /\ resp.out = Returned(Refusal)

\* the failures the specification calls transient
ClaimedTransient == {"e429", "eRate", "eToo", "eConn"}
\* the attempts the specification allows each call
ClaimedAttempts(op) == IF op = "oa_index" THEN IndexMaxAttempts ELSE QueryMaxAttempts

\* C8: a call that ended on a transient failure was retried until its
\* attempts were used up (3 for a query, 5 for index construction), with a
\* wait of i * base_delay after attempt i.
C8_TransientRetried ==
    (/\ resp.pc = "done"
     /\ resp.op \in {"oa_query", "oa_index", "query"}
     /\ resp.last \in ClaimedTransient)
        => /\ resp.tries = ClaimedAttempts(resp.op)
           /\ resp.waits = [i \in 1..(ClaimedAttempts(resp.op) - 1) |->
                               i * BaseDelay(resp.op)]

\* the failures that are neither a rate limit nor too many requests
NonTransient == {"eConn", "eBad"}

C10_ExhaustedError ==
    (/\ resp.pc = "done" /\ resp.op \in OaOps
     /\ resp.out.status = "raise"
     /\ resp.last \in {"e429", "eRate", "eToo"})
        => /\ resp.tries = MaxAttempts(resp.op)
           /\ resp.out.err.type \in {"Exception", "backend"}
           /\ resp.out.err.cause = resp.last

\* the requests of the chatbot service
ServiceOps == {"query", "chat", "reset"}

\* C11: while no initialization has succeeded (chatbot is None) every query,
\* chat and reset request ends with the not-initialized error, with no
\* retrieval, no generation and no retry, and none of them is under way;
\* once a chatbot is installed, the same requests are served whenever the
\* backend does not fail.
C11_NotReadyThenServed ==
    /\ chatbot = "None" =>
          /\ (resp.pc = "done" /\ resp.op \in ServiceOps)
                => /\ resp.out = NotInitialized
                   /\ ~resp.retrieved
                   /\ resp.gen = 0 /\ resp.tries = 0 /\ resp.waits = <<>>
          /\ \A r \in Reqs : req[r].op \notin ServiceOps
    /\ (/\ chatbot # "None"
        /\ resp.pc = "done" /\ resp.op \in ServiceOps /\ resp.via = "http"
        /\ resp.last \notin BackendErrors)
          => resp.out.status = "200"

\* the initializations of both programs
InitOps == {"init", "oa_init"}

C13_RebuildStable ==
    (/\ resp.pc = "done" /\ resp.op \in InitOps
     /\ Succeeded(resp.out)
     /\ resp.before.dir = resp.dir
     /\ resp.prior = resp.before.n)
        => resp.count = resp.before.n

\* the lists a and b hold the same messages, each as often
SameMessages(a, b) ==
    /\ Len(a) = Len(b)
    /\ \A i \in 1..Len(a) :
          Cardinality({j \in 1..Len(a) : a[j] = a[i]})
              = Cardinality({j \in 1..Len(b) : b[j] = a[i]})

\* a call of the History Store has ended, of method op
DbEnded(op) == dbresp.pc = "done" /\ dbresp.op = op
\* ... and returned (True or a dict)
DbReturned(op) == DbEnded(op) /\ dbresp.res.status = "200"

\* C14: under every interleaving of create_user calls the users table holds
\* at most one row per email; a call that returns, returns the id the first
\* call with that email was given, and the row of that email then carries
\* the name of that call.
C14_UpsertByEmail ==
    /\ \A r1 \in users, r2 \in users : r1.email = r2.email => r1 = r2
    /\ DbReturned("user")
          => /\ dbresp.res.id = firstId[dbresp.email]
             /\ \E r \in users :
                   /\ r.email = dbresp.email
                   /\ r.id = dbresp.res.id
                   /\ r.name = dbresp.name

\* a create_user call for an email that had a row with another name has
\* returned the id of that row
C14_Witness ==
    /\ DbReturned("user")
    /\ dbresp.was \notin {"none", dbresp.name}
    /\ dbresp.res.id < dbresp.seq

\* C15: create_chat is all or nothing. When it returns, its commit wrote the
\* chat row with every message of the request; when the flush of the chat
\* row or the commit fails, there is no row of that chat and no message of
\* it; while its session is open no row of the chat and no message of it is
\* committed; and the list a get_chat returns for a chat that is not deleted
\* while it reads holds the messages of a committed version of the chat, all
\* of them and no other (their order is the matter of C29).
C15_CreateAllOrNothing ==
    /\ DbReturned("create")
          => dbresp.after = Version(dbresp.title, dbresp.msgs.val)
    /\ (DbEnded("create") /\ dbresp.failed \in {"flush", "commit"})
          => /\ ~HasChat(dbresp.chat)
             /\ MsgIds(messages, dbresp.chat) = {}
    /\ \A t \in Txs :
          (tx[t].op = "create" /\ tx[t].pc = "commit")
              => /\ ~HasChat(tx[t].chat)
                 /\ MsgIds(messages, tx[t].chat) = {}
    /\ (DbReturned("get") /\ dbresp.res.kind = "dict" /\ dbresp.v1.title # "none")
          => \E v \in kept[dbresp.chat] : SameMessages(v.msgs, dbresp.res.msgs)

\* a create_chat with two messages failed at its commit
C15_Witness ==
    /\ DbEnded("create")
    /\ dbresp.failed = "commit"
    /\ Len(dbresp.msgs.val) = 2

\* the update_chat calls whose commit has been made: those that read the
\* chat again, and the one that ended last
Updated ==
    {tx[t] : t \in {t \in Txs : tx[t].op = "update" /\ tx[t].pc = "reread"}}
        \cup (IF DbEnded("update") /\ dbresp.failed \in {"none", "reread"}
                 /\ dbresp.res.kind # "None"
              THEN {dbresp} ELSE {})

\* C16: an update_chat of a chat of user_id with messages None commits the
\* message list it found; with a list, and no other call writing the chat's
\* messages between its DELETE and its commit, it commits exactly that list:
\* no message for [], the messages of the list in their order otherwise.
C16_UpdateMessages ==
    \A u \in Updated :
        /\ u.row.user_id = u.user
        /\ ~u.msgs.some => u.after.msgs = u.before.msgs
        /\ (u.msgs.some /\ u.frame) => u.after.msgs = u.msgs.val

\* an update_chat with messages [] of a chat with messages has returned the
\* chat without messages
C16_Witness ==
    /\ DbReturned("update")
    /\ dbresp.msgs = Some(<<>>)
    /\ dbresp.before.msgs # <<>>
    /\ dbresp.after.msgs = <<>>
    /\ dbresp.res.msgs = <<>>

\* C17: update_chat is transactional. When its DELETE or its commit fails
\* the chat has the title and the whole message list it had before the
\* failure; and a get_chat of a chat that is not deleted while it reads
\* returns the messages of a committed version, all of them and no other,
\* never the title a concurrent update_chat committed with the messages from
\* before it.
C17_UpdateTransactional ==
    /\ (DbEnded("update") /\ dbresp.failed \in {"delete", "commit"})
          => /\ dbresp.after = dbresp.before
             /\ Stored(dbresp.chat) \in kept[dbresp.chat] \cup {Version("none", <<>>)}
    /\ (DbReturned("get") /\ dbresp.res.kind = "dict" /\ dbresp.v1.title # "none")
          => /\ \E v \in kept[dbresp.chat] : SameMessages(v.msgs, dbresp.res.msgs)
             /\ (dbresp.v0.title # dbresp.v1.title
                   /\ ~SameMessages(dbresp.v0.msgs, dbresp.v1.msgs))
                   => ~(/\ dbresp.res.title = dbresp.v1.title
                        /\ SameMessages(dbresp.res.msgs, dbresp.v0.msgs))

\* an update_chat with a title and a list, of a chat with messages, failed at
\* its commit after its DELETE had run
C17_Witness ==
    /\ DbEnded("update")
    /\ dbresp.failed = "commit"
    /\ dbresp.title # "none"
    /\ dbresp.del # {}
    /\ dbresp.before.msgs # <<>>

\* C18: a delete_chat that returns True has removed a chat of user_id; for
\* a chat that has no row or is another user's it returns False (answered 404
\* in both cases) and its commit leaves every chat and every message as it
\* was.
C18_DeleteOwned ==
    (DbEnded("delete") /\ dbresp.failed = "none")
        => /\ dbresp.res.kind = "True"
                => /\ dbresp.row.id = dbresp.chat
                   /\ dbresp.row.user_id = dbresp.user
                   /\ ~HasChat(dbresp.chat)
           /\ (dbresp.row.id # dbresp.chat \/ dbresp.row.user_id # dbresp.user)
                => /\ dbresp.res = [NoRes EXCEPT !.kind = "False", !.status = "404"]
                   /\ dbresp.frame

\* a delete_chat of a chat of another user returned False and the chat is
\* there with its messages
C18_Witness ==
    /\ DbEnded("delete")
    /\ dbresp.res.status = "404"
    /\ dbresp.row.id = dbresp.chat
    /\ dbresp.row.user_id # dbresp.user
    /\ HasChat(dbresp.chat)
    /\ MsgIds(messages, dbresp.chat) # {}

\* C19: in every state every committed message row is of a chat that has a
\* row; and after a delete_chat that returned True the chat has no row and
\* no message.
C19_MessagesHaveChat ==
    /\ \A i \in 1..Len(messages) : HasChat(messages[i].chat_id)
    /\ (DbEnded("delete") /\ dbresp.res.kind = "True")
          => /\ ~HasChat(dbresp.chat)
             /\ MsgIds(messages, dbresp.chat) = {}

\* a delete_chat of a chat with messages returned True
C19_Witness ==
    /\ DbEnded("delete")
    /\ dbresp.res.kind = "True"
    /\ dbresp.before.msgs # <<>>
    /\ messages = <<>>

\* C20: a get_chat with the user_id of another user than the one the chat
\* belongs to returns None (answered 404), with no title and no message of
\* the chat, whatever calls were made before.
C20_CrossUserGet ==
    (DbEnded("get") /\ dbresp.was = "other")
        => /\ dbresp.res = NoneRes
           /\ dbresp.res.title = "none" /\ dbresp.res.msgs = <<>>

\* user 2 asked for the chat of user 1 after its owner had given it a new
\* title, and got 404
C20_Witness ==
    /\ DbEnded("get")
    /\ dbresp.was = "other"
    /\ dbresp.v0.title = "t2"
    /\ dbresp.v0.msgs # <<>>
    /\ dbresp.res.status = "404"

\* C21: a call that has changed a chat or its messages was made for the
\* user the chat belongs to: the update_chat calls whose commit was made,
\* the delete_chat that returned True, the add_message that returned True.
C21_OwnerScopedWrites ==
    /\ \A u \in Updated : u.row.user_id = u.user
    /\ (DbEnded("delete") /\ dbresp.res.kind = "True")
          => dbresp.row.user_id = dbresp.user
    /\ (DbEnded("add") /\ dbresp.res.kind = "True")
          => dbresp.row.user_id = dbresp.user

\* C22: a request with a userId that is no integer, to any of the five
\* handlers that take one, ends with status 400 and error InvalidUserId.
C22_InvalidUserId ==
    (dbresp.pc = "done" /\ dbresp.failed = "userId")
        => /\ dbresp.res.status = "400"
           /\ dbresp.res.kind = "InvalidUserId"

\* C23: while a request of the server is inside the generation call of its
\* handler, and the server is offered more requests, some other request can
\* take a step: a handler of another request can start.
C23_OthersProgress ==
    \A r \in Reqs :
        (req[r].via = "http" /\ req[r].pc = "query" /\ ncalls < MaxCalls)
            => \E o \in Reqs \ {r} :
                  ENABLED (QueryChatbot(o) \/ ChatWithBot(o) \/ ResetChatSession(o))

\* the roles a message has by the specification
Roles == {"user", "bot"}

\* C24: in every state the role of every committed message row is user or
\* bot.
C24_RolesUserOrBot ==
    \A i \in 1..Len(messages) : messages[i].role \in Roles

\* C25: while a rebuild has not yet enumerated and loaded the documents of
\* its directory the collection still holds the chunks it held when the
\* rebuild began, and so it does when the enumeration failed.
C25_DropAfterEnumeration ==
    /\ \A r \in Reqs :
          (req[r].op = "init" /\ req[r].pc \in {"drop", "create"} /\ req[r].call <= 1)
              => Len(collection) = req[r].prior
    /\ (resp.pc = "done" /\ resp.op = "init" /\ resp.dir.kind = "unreadable")
          => resp.count = resp.prior

\* C26: a rebuild whose delete_collection raised, there being no collection,
\* goes on as one whose delete_collection returned: its first _create_index
\* call starts on a collection without chunks, it never ends with the failure
\* of the drop, and when that call succeeds on a directory with PDF files the
\* collection holds the chunks of the directory.
C26_AbsentDropPassed ==
    /\ \A r \in Reqs :
          (req[r].op = "init" /\ req[r].pc = "create" /\ req[r].call = 1)
              => /\ req[r].dropped \in {"ok", "raised"}
                 /\ collection = <<>>
                 /\ built = NoBuild
    /\ (resp.pc = "done" /\ resp.op = "init" /\ resp.dropped = "raised")
          => /\ resp.last # "eDrop"
             /\ (Succeeded(resp.out) /\ resp.call = 1) => resp.count = resp.dir.n

\* an initialize whose delete_collection raised has ended well with the
\* chunks of its directory in the collection
C26_Witness ==
    /\ resp.pc = "done" /\ resp.op = "init"
    /\ resp.dropped = "raised"
    /\ resp.dir.kind = "pdfs"
    /\ resp.out.status = "200"
    /\ resp.count = MaxChunks

\* C27: an initialization that returned without error left exactly the
\* chunks of one ingestion of its directory in the collection; _create_index
\* is called at most twice, and an initialization that failed in
\* _create_index failed in the second call.
C27_OneIngestion ==
    /\ (resp.pc = "done" /\ resp.op = "init" /\ resp.call > 0 /\ Succeeded(resp.out))
          => resp.count = resp.dir.n
    /\ \A r \in Reqs : req[r].call <= 2
    /\ (resp.pc = "done" /\ resp.op = "init" /\ resp.call > 0 /\ ~Succeeded(resp.out))
          => /\ resp.call = 2
             /\ resp.out.status = "500"

\* C28: after a manual initialize that failed the chatbot installed is the
\* one that was installed before the call and the collection holds as many
\* chunks as before the call; while an initialize runs, the chatbot
\* installed is still the one from before.
C28_FailedInitKeepsServing ==
    /\ (resp.pc = "done" /\ resp.op = "init" /\ ~Succeeded(resp.out))
          => /\ chatbot = resp.bot
             /\ resp.count = resp.prior
    /\ \A r \in Reqs : req[r].op = "init" => chatbot = req[r].bot

\* C29: a get_chat by the owner that read message rows which one
\* create_chat or update_chat call wrote (rows of one created_at) returns
\* the messages in the order of that call's list.
C29_MessageOrderRoundTrip ==
    (/\ DbReturned("get") /\ dbresp.res.kind = "dict"
     /\ dbresp.was = "own"
     /\ Cardinality(dbresp.ats) = 1)
        => dbresp.res.msgs = dbresp.v1.msgs

\* C30: get_chats returns the chats of user_id and no other, each with no
\* message, by updated_at descending; and when an update_chat has returned
\* the chat, at its commit the chat was the one that comes first in the list
\* of its user.
C30_ListMostRecentFirst ==
    /\ DbReturned("list")
          => /\ {dbresp.list[i].id : i \in 1..Len(dbresp.list)} = dbresp.owned
             /\ Len(dbresp.list) = Cardinality(dbresp.owned)
             /\ \A i \in 1..Len(dbresp.list) :
                   /\ dbresp.list[i].userId = dbresp.user
                   /\ dbresp.list[i].messages = <<>>
                   /\ \A j \in 1..Len(dbresp.list) :
                         i < j => dbresp.list[i].updatedAt >= dbresp.list[j].updatedAt
    /\ DbReturned("update") => dbresp.top = {dbresp.chat}

====
